---- MODULE Spec2Model ----
(***************************************************************************)
(* Model of hoggy-train-sounds-and-lights.ino: the Arduino sketch that     *)
(* flickers three WS2812 LEDs and, every FLICKERS_PER_SOUND flickers,      *)
(* plays one of five sounds (two melodies, a Talkie station announcement,  *)
(* a chuff sequence, a whistle).                                           *)
(*                                                                         *)
(* One step of the model is one call of loop().  The C functions are       *)
(* operators from a state record to a state record, composed in the order  *)
(* the code calls them; the variables take the fields of the result.      *)
(* History variables (the last block of VARIABLES) record what the code    *)
(* did; no operator of the program reads them.                             *)
(***************************************************************************)
EXTENDS Integers, Sequences, FiniteSets, TLC

VARIABLES
    \* ---- globals of the sketch (lines 297-303) and loop()'s static counter
    gain, inMozzi, mozziMode,
    inMelody, curMelodyNote, whichMelody,
    inChuffing, curChuff, chuffDelay,
    inWhistle, curWhistle,
    whichSound,
    counter,
    \* ---- collaborators, as far as the sketch drives them
    pixels,        \* strip: zone -> <<r, g, b>>
    ledBuiltin,    \* digitalWrite(LED_BUILTIN, .)
    mozziRunning,  \* TRUE between startMozzi() and stopMozzi()
    kDelay,        \* duration the EventDelay was last started with
    kEnvelope,     \* <<attack, decay>> the Ead envelope was last started with
    aSinFreq,      \* frequency of the melody oscillator
    voiceQ,        \* Talkie's queue of words not yet spoken
    \* ---- history
    ticked,          \* loop() has been called at least once
    lastLaunch,      \* sound launched during the last loop() call, or "none"
    launchGap,       \* lighting frames between the previous launch and that one
    sinceLaunch,     \* lighting frames produced since the last launch
    activeAtLaunch,  \* sub-machines active when the last call launched a sound
    launchLog,       \* launches of the current pass through the rotation
    notesIssued,     \* playNote() calls since the last startMelody()
    chuffsIssued,    \* chuff() calls since the last startChuffing()
    whistleLog,      \* stages passed to whistle() since the last startWhistle()
    annTrace,        \* operations of the last stationAnnouncement()
    pixelWrites,     \* setPixelColor() calls during the last loop() call
    showDuringMozzi  \* strip.show() ran while Mozzi was running, last call

vars == << gain, inMozzi, mozziMode, inMelody, curMelodyNote, whichMelody,
           inChuffing, curChuff, chuffDelay, inWhistle, curWhistle,
           whichSound, counter, pixels, ledBuiltin, mozziRunning, kDelay,
           kEnvelope, aSinFreq, voiceQ, ticked, lastLaunch, launchGap,
           sinceLaunch, activeAtLaunch, launchLog, notesIssued, chuffsIssued,
           whistleLog, annTrace, pixelWrites, showDuringMozzi >>

----------------------------------------------------------------------------
\* Program constants

LED_COUNT == 3
MOZZI_CHUFF == 1
MOZZI_NOTE == 2
MOZZI_WHISTLE == 3
CHUFF_DELAY == 1100
NUM_CHUFFS == 15
FLICKERS_PER_SOUND == 300
COUNTER_MAX == 32000
CHUFF_STEP == 150
CHUFF_FLOOR == 50
CHUFF_DURATION == 1000
CHUFF_ATTACK == 75
WHISTLE_INITIAL == 0
WHISTLE_TRITONE == 1
WHISTLE_FADE == 2
WHISTLE_DUD == 3
WHISTLE_INITIAL_DURATION == 900
WHISTLE_TRITONE_DURATION == 900
WHISTLE_FADE_DURATION == 0
WHISTLE_DUD_DURATION == 0
MELODY_LENGTH == 30
MELODY2_LENGTH == 43
WHOLE_NOTE == 1024

melody ==
    << 494, 659, 784, 740, 659, 988, 880, 740, 659, 784, 740, 622, 698, 494,
       494, 659, 784, 740, 659, 988, 1175, 1109, 1047, 831, 1047, 988, 932,
       466, 784, 659 >>

melodyDurations ==
    << 4, -4, 8, 4, 2, 4, -2, -2, -4, 8, 4, 2, 4, -1, 4, -4, 8, 4, 2, 4, 2,
       4, 2, 4, -4, 8, 4, 2, 4, -1 >>

melody2 ==
    << 659, 1319, 1047, 1319, 1047, 1397, 1319, 1245, 1245, 1319, 1047, 880,
       622, 1047, 880, 440, 494, 523, 784, 784, 784, 698, 1047, 1319, 1047,
       698, 698, 587, 659, 1319, 1047, 1319, 1047, 1397, 1319, 1245, 1245,
       1319, 1047, 880, 622, 1047, 880 >>

melody2Durations ==
    << 4, 2, 4, 2, 4, 2, 4, 2, 4, -4, 8, -8, 2, 4, 1, -4, -4, 4, 4, 4, 4, 4,
       4, 4, 4, 4, 4, 1, 4, 2, 4, 2, 4, 2, 4, 2, 4, -4, 8, -8, 2, 4, -1 >>

\* The words stationAnnouncement() queues before and after its pause.
ANNOUNCEMENT_FIRST ==
    << "X", "PRESS", "NINE", "FIVE", "SEVEN", "TWO", "DEPARTURE", "FROM",
       "NINE", "AND", "THREE", "FOUR" >>

ANNOUNCEMENT_SECOND == << "ALL", "ABORT" >>

----------------------------------------------------------------------------
\* Bounds of the model

\* Spec stops calling loop() once the flicker counter has reached MaxCounter
\* (past the fourth launch of loop(), the whistle, and its last stage).
MaxCounter == 1210

\* Values the envelope generator can hand to updateControl().
EnvVals == {0, 255}

\* Raw values of the random generator behind random(n) == raw % n:
\* 0 and 99 give the least and the greatest result of every random(n) the
\* sketch calls for a colour; 0 and 1 decide the stove's flash.
ColourRaw == {0, 99}
FlashRaw == {0, 1}

----------------------------------------------------------------------------
\* The state as a record, so that the C functions compose

Cur ==
    [ gain |-> gain, inMozzi |-> inMozzi, mozziMode |-> mozziMode,
      inMelody |-> inMelody, curMelodyNote |-> curMelodyNote,
      whichMelody |-> whichMelody, inChuffing |-> inChuffing,
      curChuff |-> curChuff, chuffDelay |-> chuffDelay,
      inWhistle |-> inWhistle, curWhistle |-> curWhistle,
      whichSound |-> whichSound, counter |-> counter, pixels |-> pixels,
      ledBuiltin |-> ledBuiltin, mozziRunning |-> mozziRunning,
      kDelay |-> kDelay, kEnvelope |-> kEnvelope, aSinFreq |-> aSinFreq,
      voiceQ |-> voiceQ, ticked |-> ticked, lastLaunch |-> lastLaunch,
      launchGap |-> launchGap, sinceLaunch |-> sinceLaunch,
      activeAtLaunch |-> activeAtLaunch, launchLog |-> launchLog,
      notesIssued |-> notesIssued, chuffsIssued |-> chuffsIssued,
      whistleLog |-> whistleLog, annTrace |-> annTrace,
      pixelWrites |-> pixelWrites, showDuringMozzi |-> showDuringMozzi ]

Is(s) ==
    /\ gain = s.gain /\ inMozzi = s.inMozzi /\ mozziMode = s.mozziMode
    /\ inMelody = s.inMelody /\ curMelodyNote = s.curMelodyNote
    /\ whichMelody = s.whichMelody /\ inChuffing = s.inChuffing
    /\ curChuff = s.curChuff /\ chuffDelay = s.chuffDelay
    /\ inWhistle = s.inWhistle /\ curWhistle = s.curWhistle
    /\ whichSound = s.whichSound /\ counter = s.counter
    /\ pixels = s.pixels /\ ledBuiltin = s.ledBuiltin
    /\ mozziRunning = s.mozziRunning /\ kDelay = s.kDelay
    /\ kEnvelope = s.kEnvelope /\ aSinFreq = s.aSinFreq
    /\ voiceQ = s.voiceQ /\ ticked = s.ticked
    /\ lastLaunch = s.lastLaunch /\ launchGap = s.launchGap
    /\ sinceLaunch = s.sinceLaunch /\ activeAtLaunch = s.activeAtLaunch
    /\ launchLog = s.launchLog /\ notesIssued = s.notesIssued
    /\ chuffsIssued = s.chuffsIssued /\ whistleLog = s.whistleLog
    /\ annTrace = s.annTrace /\ pixelWrites = s.pixelWrites
    /\ showDuringMozzi = s.showDuringMozzi

Becomes(s) ==
    /\ gain' = s.gain /\ inMozzi' = s.inMozzi /\ mozziMode' = s.mozziMode
    /\ inMelody' = s.inMelody /\ curMelodyNote' = s.curMelodyNote
    /\ whichMelody' = s.whichMelody /\ inChuffing' = s.inChuffing
    /\ curChuff' = s.curChuff /\ chuffDelay' = s.chuffDelay
    /\ inWhistle' = s.inWhistle /\ curWhistle' = s.curWhistle
    /\ whichSound' = s.whichSound /\ counter' = s.counter
    /\ pixels' = s.pixels /\ ledBuiltin' = s.ledBuiltin
    /\ mozziRunning' = s.mozziRunning /\ kDelay' = s.kDelay
    /\ kEnvelope' = s.kEnvelope /\ aSinFreq' = s.aSinFreq
    /\ voiceQ' = s.voiceQ /\ ticked' = s.ticked
    /\ lastLaunch' = s.lastLaunch /\ launchGap' = s.launchGap
    /\ sinceLaunch' = s.sinceLaunch /\ activeAtLaunch' = s.activeAtLaunch
    /\ launchLog' = s.launchLog /\ notesIssued' = s.notesIssued
    /\ chuffsIssued' = s.chuffsIssued /\ whistleLog' = s.whistleLog
    /\ annTrace' = s.annTrace /\ pixelWrites' = s.pixelWrites
    /\ showDuringMozzi' = s.showDuringMozzi

\* The globals as their initialisers leave them, before setup() runs.
Globals ==
    [ gain |-> 0, inMozzi |-> 0, mozziMode |-> MOZZI_CHUFF,
      inMelody |-> 0, curMelodyNote |-> 0, whichMelody |-> 0,
      inChuffing |-> 0, curChuff |-> 0, chuffDelay |-> CHUFF_DELAY,
      inWhistle |-> 0, curWhistle |-> WHISTLE_INITIAL,
      whichSound |-> 0, counter |-> 1,
      pixels |-> [z \in 0 .. LED_COUNT - 1 |-> << 0, 0, 0 >>],
      ledBuiltin |-> 0, mozziRunning |-> FALSE, kDelay |-> 0,
      kEnvelope |-> << 0, 0 >>, aSinFreq |-> 0, voiceQ |-> << >>,
      ticked |-> FALSE, lastLaunch |-> "none", launchGap |-> 0,
      sinceLaunch |-> 0, activeAtLaunch |-> 0, launchLog |-> << >>,
      notesIssued |-> 0, chuffsIssued |-> 0, whistleLog |-> << >>,
      annTrace |-> << >>, pixelWrites |-> 0, showDuringMozzi |-> FALSE ]

----------------------------------------------------------------------------
\* History bookkeeping

ActiveCount(s) ==
    (IF s.inMelody = 1 THEN 1 ELSE 0) + (IF s.inChuffing = 1 THEN 1 ELSE 0)
        + (IF s.inWhistle = 1 THEN 1 ELSE 0)

\* A sound is being launched in state s: log it.  The log restarts once it
\* holds a full pass of five launches.
noteLaunch(s, sound) ==
    LET entry == [ sound |-> sound,
                   by |-> IF s.ticked THEN "loop" ELSE "setup",
                   slot |-> s.whichSound ]
    IN  [s EXCEPT !.lastLaunch = sound,
                  !.launchGap = s.sinceLaunch,
                  !.sinceLaunch = 0,
                  !.activeAtLaunch = ActiveCount(s),
                  !.launchLog = IF Len(@) >= 5 THEN << entry >>
                                ELSE Append(@, entry)]

\* loop() is entered: forget what the previous call did.
enterLoop(s) ==
    [s EXCEPT !.ticked = TRUE, !.lastLaunch = "none", !.launchGap = 0,
              !.activeAtLaunch = 0, !.pixelWrites = 0,
              !.showDuringMozzi = FALSE]

----------------------------------------------------------------------------
\* Collaborators

startMozzi(s) == [s EXCEPT !.mozziRunning = TRUE]

stopMozzi(s) == [s EXCEPT !.mozziRunning = FALSE]


\* setPixelColor, writing the colour to every zone of the strip.
setPixelColor_All(s, n, r, g, b) ==
    [s EXCEPT !.pixels = [z \in DOMAIN @ |-> << r, g, b >>],
              !.pixelWrites = @ + 1]

setPixelColor(s, n, r, g, b) ==
    [s EXCEPT !.pixels[n] = << r, g, b >>, !.pixelWrites = @ + 1]

stripShow(s) ==
    [s EXCEPT !.showDuringMozzi = @ \/ s.mozziRunning]

cutTheLights(s) ==
    stripShow(setPixelColor(setPixelColor(setPixelColor(s,
        0, 0, 0, 0), 1, 0, 0, 0), 2, 0, 0, 0))

----------------------------------------------------------------------------
\* Melody player


\* playNote, forgetting to raise the busy flag.
playNote_NotBusy(s, freq, duration) ==
    [startMozzi(s) EXCEPT !.aSinFreq = freq, !.ledBuiltin = 1,
                          !.mozziMode = MOZZI_NOTE,
                          !.kDelay = duration, !.notesIssued = @ + 1]

playNote(s, freq, duration) ==
    [startMozzi(s) EXCEPT !.aSinFreq = freq, !.ledBuiltin = 1,
                          !.inMozzi = 1, !.mozziMode = MOZZI_NOTE,
                          !.kDelay = duration, !.notesIssued = @ + 1]


\* noteLength, taking a dotted note for a plain one.
noteLength_Undotted(code) ==
    LET d == IF code = 0 THEN 1 ELSE code
    IN  IF d > 0 THEN WHOLE_NOTE \div d ELSE WHOLE_NOTE \div (-d)

\* Duration code of a table -> length handed to playNote (lines 514-522).
noteLength(code) ==
    LET d == IF code = 0 THEN 1 ELSE code
    IN  IF d > 0 THEN WHOLE_NOTE \div d
        ELSE (WHOLE_NOTE * 3) \div ((-d) * 2)

melodyLengthOf(which) ==
    IF which = 0 THEN MELODY_LENGTH ELSE MELODY2_LENGTH

\* A C array read: element i counted from 0; "outOfBounds" marks a read
\* outside the array.
arrayRead(a, i) ==
    IF i >= 0 /\ i < Len(a) THEN a[i + 1] ELSE "outOfBounds"


\* melodyDone, completing one note early.
melodyDone_Early(note, melodyLength) == note >= melodyLength - 1


\* melodyDone, letting the index run one past the table.
melodyDone_Late(note, melodyLength) == note > melodyLength

melodyDone(note, melodyLength) == note >= melodyLength


\* playNextNoteInMelody, choosing the table anew from whichSound at every
\* note.
playNextNoteInMelody_Reselect(s) ==
    LET which == IF s.whichSound > 0 THEN 1 ELSE 0
        duration == IF which = 0
                    THEN arrayRead(melodyDurations, s.curMelodyNote)
                    ELSE arrayRead(melody2Durations, s.curMelodyNote)
        note == IF which = 0
                THEN arrayRead(melody, s.curMelodyNote)
                ELSE arrayRead(melody2, s.curMelodyNote)
        melodyLength == melodyLengthOf(which)
        p == [playNote(s, note, noteLength(duration))
                EXCEPT !.whichMelody = which]
        n == s.curMelodyNote + 1
    IN  IF melodyDone(n, melodyLength)
        THEN [p EXCEPT !.curMelodyNote = 0, !.inMelody = 0]
        ELSE [p EXCEPT !.curMelodyNote = n]

playNextNoteInMelody(s) ==
    LET duration == IF s.whichMelody = 0
                    THEN arrayRead(melodyDurations, s.curMelodyNote)
                    ELSE arrayRead(melody2Durations, s.curMelodyNote)
        note == IF s.whichMelody = 0
                THEN arrayRead(melody, s.curMelodyNote)
                ELSE arrayRead(melody2, s.curMelodyNote)
        melodyLength == melodyLengthOf(s.whichMelody)
        p == playNote(s, note, noteLength(duration))
        n == s.curMelodyNote + 1
    IN  IF melodyDone(n, melodyLength)
        THEN [p EXCEPT !.curMelodyNote = 0, !.inMelody = 0]
        ELSE [p EXCEPT !.curMelodyNote = n]


\* startMelody, always choosing the first table.
startMelody_FirstOnly(s) ==
    LET l == noteLaunch(s, "MelodyA")
    IN  playNextNoteInMelody(
            [l EXCEPT !.inMelody = 1, !.curMelodyNote = 0,
                      !.whichMelody = 0, !.notesIssued = 0])

startMelody(s) ==
    LET which == IF s.whichSound > 0 THEN 1 ELSE s.whichSound
        l == noteLaunch(s, IF which = 0 THEN "MelodyA" ELSE "MelodyB")
    IN  playNextNoteInMelody(
            [l EXCEPT !.inMelody = 1, !.curMelodyNote = 0,
                      !.whichMelody = which, !.notesIssued = 0])

----------------------------------------------------------------------------
\* Whistle

whistle(s, whichWhistle) ==
    LET m == [startMozzi(s) EXCEPT !.ledBuiltin = 1, !.inMozzi = 1,
                                   !.mozziMode = MOZZI_WHISTLE,
                                   !.whistleLog = Append(@, whichWhistle)]
    IN  IF whichWhistle = WHISTLE_TRITONE
        THEN [m EXCEPT !.kDelay = WHISTLE_TRITONE_DURATION]
        ELSE IF whichWhistle = WHISTLE_INITIAL
        THEN [m EXCEPT !.kDelay = WHISTLE_INITIAL_DURATION]
        ELSE [m EXCEPT !.kDelay = WHISTLE_FADE_DURATION]


\* whistleDone, running on to the stage after the fade.
whistleDone_AfterDud(stage) == stage > WHISTLE_DUD

whistleDone(stage) == stage > WHISTLE_FADE

nextWhistle(s) ==
    LET w == whistle(s, s.curWhistle)
        n == s.curWhistle + 1
    IN  IF whistleDone(n)
        THEN [w EXCEPT !.curWhistle = 0, !.inWhistle = 0]
        ELSE [w EXCEPT !.curWhistle = n]

startWhistle(s) ==
    LET l == noteLaunch(s, "Whistle")
    IN  nextWhistle([l EXCEPT !.inWhistle = 1, !.curWhistle = 0,
                              !.whistleLog = << >>])

----------------------------------------------------------------------------
\* Chuff


\* chuff, starting the timer with the delay as the decrement will leave it.
chuff_AfterDecrement(s) ==
    [startMozzi(s) EXCEPT !.ledBuiltin = 1, !.inMozzi = 1,
                          !.mozziMode = MOZZI_CHUFF,
                          !.kEnvelope = << CHUFF_ATTACK,
                                           CHUFF_DURATION - CHUFF_ATTACK >>,
                          !.kDelay = CHUFF_DURATION
                                        + (IF s.chuffDelay - CHUFF_STEP
                                                < CHUFF_FLOOR
                                           THEN CHUFF_FLOOR
                                           ELSE s.chuffDelay - CHUFF_STEP),
                          !.chuffsIssued = @ + 1]

\* The random duration and attack of lines 593-595 are overwritten by the
\* fixed ones of lines 596-598 before they are used.
chuff(s) ==
    [startMozzi(s) EXCEPT !.ledBuiltin = 1, !.inMozzi = 1,
                          !.mozziMode = MOZZI_CHUFF,
                          !.kEnvelope = << CHUFF_ATTACK,
                                           CHUFF_DURATION - CHUFF_ATTACK >>,
                          !.kDelay = CHUFF_DURATION + s.chuffDelay,
                          !.chuffsIssued = @ + 1]


\* nextChuffDelay, without the floor.
nextChuffDelay_NoFloor(d) == d - CHUFF_STEP

nextChuffDelay(d) ==
    IF d - CHUFF_STEP < CHUFF_FLOOR THEN CHUFF_FLOOR ELSE d - CHUFF_STEP


\* chuffNextChuff, completing one pulse late.
chuffNextChuff_OneMore(s) ==
    LET c == [chuff(s) EXCEPT !.chuffDelay = nextChuffDelay(@)]
        n == s.curChuff + 1
    IN  IF n > NUM_CHUFFS
        THEN [c EXCEPT !.curChuff = 0, !.inChuffing = 0]
        ELSE [c EXCEPT !.curChuff = n]

chuffNextChuff(s) ==
    LET c == [chuff(s) EXCEPT !.chuffDelay = nextChuffDelay(@)]
        n == s.curChuff + 1
    IN  IF n >= NUM_CHUFFS
        THEN [c EXCEPT !.curChuff = 0, !.inChuffing = 0]
        ELSE [c EXCEPT !.curChuff = n]

startChuffing(s) ==
    LET l == noteLaunch(s, "Chuff")
    IN  chuffNextChuff([l EXCEPT !.inChuffing = 1, !.curChuff = 0,
                                 !.chuffDelay = CHUFF_DELAY,
                                 !.chuffsIssued = 0])

----------------------------------------------------------------------------
\* Mozzi callbacks

\* updateControl(): ready is kDelay.ready(), env is kEnvelope.next().

\* updateControl, leaving the busy flag set when the timer is ready.
updateControl_StaysBusy(s, ready, env) ==
    IF ready
    THEN [s EXCEPT !.gain = 0, !.ledBuiltin = 0]
    ELSE IF s.mozziMode = MOZZI_CHUFF \/ s.mozziMode = MOZZI_WHISTLE
    THEN [s EXCEPT !.gain = env]
    ELSE s

\* updateControl, ending the whole sound when one timer is ready.
updateControl_EndsSound(s, ready, env) ==
    IF ready
    THEN [s EXCEPT !.gain = 0, !.inMozzi = 0, !.ledBuiltin = 0,
                   !.inMelody = 0, !.inChuffing = 0, !.inWhistle = 0]
    ELSE IF s.mozziMode = MOZZI_CHUFF \/ s.mozziMode = MOZZI_WHISTLE
    THEN [s EXCEPT !.gain = env]
    ELSE s

updateControl(s, ready, env) ==
    IF ready
    THEN [s EXCEPT !.gain = 0, !.inMozzi = 0, !.ledBuiltin = 0]
    ELSE IF s.mozziMode = MOZZI_CHUFF \/ s.mozziMode = MOZZI_WHISTLE
    THEN [s EXCEPT !.gain = env]
    ELSE s


\* updateAudio, choosing the four tones when curWhistle names the tritone.
updateAudio_ByIndex(s) ==
    IF s.inMozzi = 0 THEN "silence"
    ELSE IF s.mozziMode = MOZZI_CHUFF THEN "noise"
    ELSE IF s.mozziMode = MOZZI_NOTE THEN "sine"
    ELSE IF s.mozziMode = MOZZI_WHISTLE
    THEN IF s.curWhistle = WHISTLE_TRITONE THEN "fourTone" ELSE "oneTone"
    ELSE "undefined"

\* updateAudio(): which mix the renderer outputs in state s.
updateAudio(s) ==
    IF s.inMozzi = 0 THEN "silence"
    ELSE IF s.mozziMode = MOZZI_CHUFF THEN "noise"
    ELSE IF s.mozziMode = MOZZI_NOTE THEN "sine"
    ELSE IF s.mozziMode = MOZZI_WHISTLE
    THEN IF s.curWhistle # WHISTLE_TRITONE THEN "fourTone" ELSE "oneTone"
    ELSE "undefined"


\* audioHook, never running updateControl().
audioHook_NeverControl(s, in) == s

\* audioHook(): Mozzi runs updateControl() at the control rate, so a call
\* of audioHook() may or may not run it (in.control).  A timer started with
\* duration 0 is ready at the first check.
audioHook(s, in) ==
    IF in.control
    THEN updateControl(s, in.ready \/ s.kDelay = 0, in.env)
    ELSE s

----------------------------------------------------------------------------
\* Station announcement (Talkie)

sayAWord(s, w) ==
    [s EXCEPT !.voiceQ = Append(@, w), !.annTrace = Append(@, "sayQ " \o w)]

RECURSIVE sayWords(_, _)
sayWords(s, ws) ==
    IF ws = << >> THEN s ELSE sayWords(sayAWord(s, Head(ws)), Tail(ws))

\* voice.wait() returns when Talkie has spoken everything queued.
voiceWait(s) ==
    [s EXCEPT !.voiceQ = << >>, !.annTrace = Append(@, "wait")]

pause(s, ms) ==
    [s EXCEPT !.annTrace = Append(@, IF ms = 700 THEN "delay 700"
                                     ELSE "delay 500")]

voiceTerminate(s) ==
    [s EXCEPT !.voiceQ = << >>, !.annTrace = Append(@, "terminate")]


\* stationAnnouncement, without the wait before the pause.
stationAnnouncement_NoWait(s) ==
    LET l  == noteLaunch(s, "Announcement")
        s0 == [l EXCEPT !.ledBuiltin = 1, !.annTrace = << >>]
        s1 == sayWords(s0, ANNOUNCEMENT_FIRST)
        s2 == pause(s1, 700)
        s3 == voiceWait(sayWords(s2, ANNOUNCEMENT_SECOND))
        s4 == pause([s3 EXCEPT !.ledBuiltin = 0], 500)
    IN  voiceTerminate(s4)

stationAnnouncement(s) ==
    LET l  == noteLaunch(s, "Announcement")
        s0 == [l EXCEPT !.ledBuiltin = 1, !.annTrace = << >>]
        s1 == voiceWait(sayWords(s0, ANNOUNCEMENT_FIRST))
        s2 == pause(s1, 700)
        s3 == voiceWait(sayWords(s2, ANNOUNCEMENT_SECOND))
        s4 == pause([s3 EXCEPT !.ledBuiltin = 0], 500)
    IN  voiceTerminate(s4)

----------------------------------------------------------------------------
\* Lighting animator

\* random(n) of the Arduino core: the generator's raw value modulo n.
random(raw, n) == raw % n

\* One frame.  d holds the raw random values in the order the code draws
\* them: d.light for whichLight, d.flash for the stove's random(10), and
\* d.c1, d.c2, d.c3 for the colour draws of the branch taken.  The delay of
\* 10..99 ms between the two writes of LED_BUILTIN changes no state.
trainLights(s, d) ==
    LET whichLight == random(d.light, 3)
        rgb == IF whichLight = 2
               THEN LET r == 200 + random(d.c1, 10)
                        g == r - 120 + random(d.c2, 5)
                    IN  << r, g, g >>
               ELSE IF whichLight = 0
               THEN LET g == 95 + random(d.c1, 5)
                        r == 195 + random(d.c2, 10)
                    IN  << r, g, 0 >>
               ELSE IF random(d.flash, 10) = 1
               THEN << 255 * random(d.c1, 2), 255 * random(d.c2, 2),
                       255 * random(d.c3, 2) >>
               ELSE << 150 + random(d.c1, 50), random(d.c2, 20), 0 >>
        lit == [s EXCEPT !.ledBuiltin = 1, !.sinceLaunch = @ + 1]
    IN  stripShow(setPixelColor(lit, whichLight, rgb[1], rgb[2], rgb[3]))

----------------------------------------------------------------------------
\* setup() and loop()


\* nextSound, wrapping one launch late.
nextSound_Late(w) == IF w + 1 > 5 THEN 0 ELSE w + 1


nextSound(w) == IF w + 1 > 4 THEN 0 ELSE w + 1


\* setup, without the opening melody.
setup_Silent(s) ==
    LET lights == cutTheLights(s)
    IN  [lights EXCEPT !.inMozzi = 0, !.whichSound = @ + 1]

setup(s) ==
    LET lights == cutTheLights(s)
        quiet == [lights EXCEPT !.inMozzi = 0]
        m == startMelody(quiet)
    IN  [m EXCEPT !.whichSound = @ + 1]

\* soundDue, also true on the flicker after a launch.
soundDue_Late(c) == c % FLICKERS_PER_SOUND <= 1

\* The launch check of line 777.
soundDue(c) == c % FLICKERS_PER_SOUND = 0


\* launchSound, with a single melody slot: the tests of the chain shifted.
launchSound_OneMelody(s) ==
    LET l == IF s.whichSound < 1 THEN startMelody(s)
             ELSE IF s.whichSound <= 2 THEN stationAnnouncement(s)
             ELSE IF s.whichSound = 3 THEN startChuffing(s)
             ELSE startWhistle(s)
    IN  [l EXCEPT !.whichSound = nextSound(@)]

launchSound(s) ==
    LET l == IF s.whichSound < 2 THEN startMelody(s)
             ELSE IF s.whichSound = 2 THEN stationAnnouncement(s)
             ELSE IF s.whichSound = 3 THEN startChuffing(s)
             ELSE startWhistle(s)
    IN  [l EXCEPT !.whichSound = nextSound(@)]


\* nextCounter, wrapping one flicker early.
nextCounter_Early(c) == IF c + 1 >= COUNTER_MAX THEN 0 ELSE c + 1

nextCounter(c) == IF c + 1 > COUNTER_MAX THEN 0 ELSE c + 1


\* flickerAndLaunch, choosing the sound by a draw (the chooseNoise of the
\* comment at line 778) and not by the rotation.
flickerAndLaunch_ChooseNoise(s, d) ==
    LET f == trainLights(s, d)
        l == IF soundDue(f.counter)
             THEN launchSound([f EXCEPT !.whichSound = random(d.c1, 4)])
             ELSE f
    IN  [l EXCEPT !.counter = nextCounter(@)]

\* Lines 776-798: the frame, the launch check and the counter.
flickerAndLaunch(s, d) ==
    LET f == trainLights(s, d)
        l == IF soundDue(f.counter) THEN launchSound(f) ELSE f
    IN  [l EXCEPT !.counter = nextCounter(@)]

\* One call of loop().  in.draw are the frame's random values; in.control,
\* in.ready and in.env are what audioHook() meets.
loop(s0, in) ==
    LET s == enterLoop(s0)
    IN  IF s.inMozzi = 1 THEN audioHook(s, in)
        ELSE LET t == stopMozzi(s)
             IN  IF t.inMelody = 1 THEN playNextNoteInMelody(t)
                 ELSE IF t.inChuffing = 1 THEN chuffNextChuff(t)
                 ELSE IF t.inWhistle = 1
                 THEN flickerAndLaunch(nextWhistle(t), in.draw)
                 ELSE flickerAndLaunch(t, in.draw)

----------------------------------------------------------------------------
\* Inputs of one call

NoDraw == [light |-> 0, flash |-> 0, c1 |-> 0, c2 |-> 0, c3 |-> 0]

\* The draws of a frame: any zone with its colour draws all least or all
\* greatest, and the stove's flash with its three draws independent.
Draws ==
    { [light |-> z, flash |-> f, c1 |-> c, c2 |-> c, c3 |-> c] :
        z \in 0 .. LED_COUNT - 1, f \in FlashRaw \ {1}, c \in ColourRaw }
        \cup [light : {1}, flash : FlashRaw \cap {1}, c1 : ColourRaw,
              c2 : ColourRaw, c3 : ColourRaw]

\* The one draw of the long run: the generator returns 0 every time.
FixedDraws == {NoDraw}

AudioInputs ==
    [draw : {NoDraw}, control : BOOLEAN, ready : BOOLEAN, env : EnvVals]

StepInputs == [draw : {NoDraw}, control : {FALSE}, ready : {FALSE}, env : {0}]

FrameInputs(D) == [draw : D, control : {FALSE}, ready : {FALSE}, env : {0}]

----------------------------------------------------------------------------
\* Actions: loop(), by the branch it takes

AudioTick ==
    /\ inMozzi = 1
    /\ \E in \in AudioInputs : Becomes(loop(Cur, in))

MelodyTick ==
    /\ inMozzi # 1 /\ inMelody = 1
    /\ \E in \in StepInputs : Becomes(loop(Cur, in))

ChuffTick ==
    /\ inMozzi # 1 /\ inMelody # 1 /\ inChuffing = 1
    /\ \E in \in StepInputs : Becomes(loop(Cur, in))

WhistleTick(D) ==
    /\ inMozzi # 1 /\ inMelody # 1 /\ inChuffing # 1 /\ inWhistle = 1
    /\ \E in \in FrameInputs(D) : Becomes(loop(Cur, in))

LightsTick(D) ==
    /\ inMozzi # 1 /\ inMelody # 1 /\ inChuffing # 1 /\ inWhistle # 1
    /\ \E in \in FrameInputs(D) : Becomes(loop(Cur, in))

Init == Is(setup(Globals))

\* Every draw of the frames, up to MaxCounter flickers.
Bounded == counter < MaxCounter

Next ==
    \/ Bounded /\ AudioTick
    \/ Bounded /\ MelodyTick
    \/ Bounded /\ ChuffTick
    \/ Bounded /\ WhistleTick(Draws)
    \/ Bounded /\ LightsTick(Draws)

Spec == Init /\ [][Next]_vars

\* The unbounded run, with the frames' draws fixed.  The colours feed into
\* nothing but the pixels, so the sounds go as under any other draws.
NextLong ==
    \/ AudioTick
    \/ MelodyTick
    \/ ChuffTick
    \/ WhistleTick(FixedDraws)
    \/ LightsTick(FixedDraws)

SpecLong == Init /\ [][NextLong]_vars

----------------------------------------------------------------------------
\* Helpers of the properties

Max(a, b) == IF a >= b THEN a ELSE b

IsPrefix(p, q) ==
    Len(p) <= Len(q) /\ \A i \in 1 .. Len(p) : p[i] = q[i]

Kind(sound) ==
    IF sound \in {"MelodyA", "MelodyB"} THEN "Melody" ELSE sound

Kinds(log) == [i \in 1 .. Len(log) |-> Kind(log[i].sound)]

Sounds(log) == [i \in 1 .. Len(log) |-> log[i].sound]

Active == inMelody = 1 \/ inChuffing = 1 \/ inWhistle = 1

Black == [z \in 0 .. LED_COUNT - 1 |-> << 0, 0, 0 >>]

\* The log holds launches made by loop() only, the first at rotation index 0.
LoopPassFromZero ==
    /\ Len(launchLog) >= 1
    /\ launchLog[1].slot = 0
    /\ \A i \in 1 .. Len(launchLog) : launchLog[i].by = "loop"

----------------------------------------------------------------------------
\* Properties

\* C1: after setup() and after every call of loop(), at most one of
\* inMelody, inChuffing, inWhistle is 1, and no sound (the blocking
\* announcement included) is launched while one of them is 1; the launch
\* check the whistle branch falls through to launches nothing.
C1_MutualExclusion ==
    /\ ActiveCount(Cur) <= 1
    /\ lastLaunch # "none" => activeAtLaunch = 0
    /\ showDuringMozzi => lastLaunch = "none"

\* A whistle stage was stepped, the frame and the launch check ran behind
\* it, and the whistle is still active.
C1_Witness ==
    /\ inWhistle = 1 /\ whistleLog = << WHISTLE_INITIAL, WHISTLE_TRITONE >>
    /\ showDuringMozzi /\ pixelWrites = 1 /\ lastLaunch = "none"

\* C2: a call of loop() entered while inMelody, inChuffing or inWhistle is 1
\* changes none of the three zone colours.
C2_Freeze == [][Active => pixels' = pixels]_vars

\* C3: at every tick boundary inMozzi is 1 if and only if exactly one of
\* inMelody, inChuffing, inWhistle is 1.
C3_BusyIffActive == (inMozzi = 1) <=> (ActiveCount(Cur) = 1)

\* C3 as amended: at every tick boundary at most one sub-machine is active;
\* inMozzi = 1 means the engine is running the sound of the step issued
\* last, in the mode of the sub-machine that is active if one still is; and
\* a call of loop() entered with inMozzi = 0 and a sub-machine active steps
\* it and returns with inMozzi = 1.
C3_BusyWhileStepSounds ==
    /\ [](/\ ActiveCount(Cur) <= 1
          /\ inMozzi = 1 => mozziRunning
          /\ (inMozzi = 1 /\ inMelody = 1) => mozziMode = MOZZI_NOTE
          /\ (inMozzi = 1 /\ inChuffing = 1) => mozziMode = MOZZI_CHUFF
          /\ (inMozzi = 1 /\ inWhistle = 1) => mozziMode = MOZZI_WHISTLE)
    /\ [][(inMozzi = 0 /\ Active) => inMozzi' = 1]_vars

\* The last note of the second melody sounds: busy, and nothing active.
C3_Witness ==
    /\ inMozzi = 1 /\ ActiveCount(Cur) = 0
    /\ whichMelody = 1 /\ notesIssued = MELODY2_LENGTH

\* C4: from rotation index 0, five consecutive launches of loop() are
\* Melody, Announcement, Chuff, Whistle, Melody.
C4_RotationOfFour ==
    LoopPassFromZero =>
        IsPrefix(Kinds(launchLog),
                 << "Melody", "Announcement", "Chuff", "Whistle", "Melody" >>)

\* C4 as amended: from rotation index 0, five consecutive launches of loop()
\* are Melody, Melody, Announcement, Chuff, Whistle.
C4_RotationOfFive ==
    LoopPassFromZero =>
        IsPrefix(Kinds(launchLog),
                 << "Melody", "Melody", "Announcement", "Chuff", "Whistle" >>)

\* loop() has made five launches in a row, the first at index 0.
C4_Witness == LoopPassFromZero /\ Len(launchLog) = 5

\* C5: every launch of loop() comes on the FLICKERS_PER_SOUND-th lighting
\* frame after the launch before it, on either side of the counter's wrap.
C5_Gating ==
    (ticked /\ lastLaunch # "none") => launchGap = FLICKERS_PER_SOUND

\* C6: a melody of table length L (30 for the first table, 43 for the
\* second) issues exactly L notes, and inMelody is 1 until the L-th note is
\* issued and 0 from then on.
C6_MelodyLength ==
    LET L == IF whichMelody = 0 THEN 30 ELSE 43
    IN  /\ L = (IF whichMelody = 0 THEN Len(melody) ELSE Len(melody2))
        /\ notesIssued \in 1 .. L
        /\ inMelody = 1 <=> notesIssued < L

\* The second melody has just issued its last note.
C6_Witness ==
    /\ whichMelody = 1 /\ notesIssued = 43 /\ inMelody = 0
    /\ inMozzi = 1 /\ mozziMode = MOZZI_NOTE

\* C7: after k pulses of a chuff sequence, 0 <= k <= 15, chuffDelay is
\* max(50, 1100 - 150 * k), so it never rises from pulse to pulse and stays
\* within 50 .. 1100.
C7_ChuffDelay ==
    /\ chuffsIssued \in 0 .. 15
    /\ chuffDelay = Max(50, 1100 - 150 * chuffsIssued)
    /\ chuffDelay \in 50 .. 1100

\* Ten pulses issued: the delay sits on its floor.
C7_Witness == inChuffing = 1 /\ chuffsIssued = 10 /\ chuffDelay = 50

\* C8: the stages passed to whistle() from a launch to completion are
\* Initial, Tritone, Fade, Dud.
C8_FourStages ==
    (whistleLog # << >> /\ inWhistle = 0) =>
        whistleLog = << WHISTLE_INITIAL, WHISTLE_TRITONE, WHISTLE_FADE,
                        WHISTLE_DUD >>

\* C8 as amended: the stages passed to whistle() from a launch to
\* completion are Initial, Tritone, Fade, in that order, none repeated or
\* skipped, at every launch; WHISTLE_DUD is never passed.
C8_ThreeStages ==
    /\ IsPrefix(whistleLog, << WHISTLE_INITIAL, WHISTLE_TRITONE,
                               WHISTLE_FADE >>)
    /\ inWhistle = 1 => Len(whistleLog) \in {1, 2}
    /\ (whistleLog # << >> /\ inWhistle = 0) => Len(whistleLog) = 3

\* A whistle has completed in a pass of the rotation that loop() began.
C8_Witness ==
    /\ inWhistle = 0 /\ Len(whistleLog) = 3
    /\ lastLaunch = "none" /\ LoopPassFromZero /\ Len(launchLog) = 5

\* C9: the launches go through five slots, first melody, second melody,
\* announcement, chuff, whistle, and repeat; setup()'s melody takes slot 0,
\* so the first launch of loop() is the second melody.
C9_FiveSlots ==
    /\ Len(launchLog) \in 1 .. 5
    /\ IsPrefix(Sounds(launchLog),
                << "MelodyA", "MelodyB", "Announcement", "Chuff", "Whistle" >>)
    /\ \A i \in 1 .. Len(launchLog) :
          /\ launchLog[i].slot = i - 1
          /\ launchLog[i].by = "setup" => i = 1
    /\ ~ticked => launchLog[1].by = "setup"
    /\ whichSound = Len(launchLog) % 5

\* A second pass of the rotation, all of it launched by loop(), is complete.
C9_Witness ==
    /\ Len(launchLog) = 5 /\ launchLog[1].by = "loop"
    /\ launchLog[5].sound = "Whistle" /\ whichSound = 0

\* C10: setup() launches a melody whatever the counter: before the first
\* call of loop() the melody is active and the busy flag set, no frame has
\* been produced, and the first call of loop() produces none.
C10_StartupMelody ==
    /\ [](~ticked =>
            /\ inMelody = 1 /\ inMozzi = 1 /\ mozziRunning
            /\ mozziMode = MOZZI_NOTE /\ notesIssued = 1
            /\ launchLog = << [sound |-> "MelodyA", by |-> "setup",
                               slot |-> 0] >>
            /\ ~soundDue(counter)
            /\ sinceLaunch = 0 /\ pixels = Black)
    /\ [][~ticked => (pixels' = pixels /\ sinceLaunch' = 0
                        /\ counter' = counter /\ inMelody' = 1)]_vars

\* The state setup() leaves: the first melody launched, loop() not yet run.
C10_Witness ==
    ~ticked /\ lastLaunch = "MelodyA" /\ inMelody = 1 /\ inMozzi = 1

----------------------------------------------------------------------------
\* The run under fairness

\* A call of loop() in which audioHook() runs updateControl() and finds the
\* timer ready.
AudioExpire ==
    /\ inMozzi = 1
    /\ \E in \in AudioInputs :
          in.control /\ in.ready /\ Becomes(loop(Cur, in))

\* The frames' draws fixed, up to MaxCounter flickers: the run ends between
\* two sounds, after the whistle.
NextLive ==
    \/ Bounded /\ AudioTick
    \/ Bounded /\ MelodyTick
    \/ Bounded /\ ChuffTick
    \/ Bounded /\ WhistleTick(FixedDraws)
    \/ Bounded /\ LightsTick(FixedDraws)

\* The Arduino core calls loop() again and again, and a timer started with a
\* finite duration is ready after finitely many calls.
SpecLive ==
    /\ Init
    /\ [][NextLive]_vars
    /\ WF_vars(NextLive)
    /\ WF_vars(Bounded /\ AudioExpire)

----------------------------------------------------------------------------
\* More helpers of the properties

\* loop() is entered on the path that reaches trainLights(): not busy, and
\* neither the melody nor the chuff branch returns before it.
FramePath == inMozzi # 1 /\ inMelody # 1 /\ inChuffing # 1

\* What stationAnnouncement() does, in order.
ANNOUNCEMENT_TRACE ==
    << "sayQ X", "sayQ PRESS", "sayQ NINE", "sayQ FIVE", "sayQ SEVEN",
       "sayQ TWO", "sayQ DEPARTURE", "sayQ FROM", "sayQ NINE", "sayQ AND",
       "sayQ THREE", "sayQ FOUR", "wait", "delay 700", "sayQ ALL",
       "sayQ ABORT", "wait", "delay 500", "terminate" >>

----------------------------------------------------------------------------
\* Properties, continued

\* C11: the strip is never written and shown while the synthesis engine is
\* running, that is between a startMozzi() and the stopMozzi() after it, in
\* any call of loop(), the whistle's included.
C11_NoShowWhileMozzi == ~showDuringMozzi

\* C12: while loop() keeps being called and every timer started expires,
\* every launched sound completes: from a state where inMelody, inChuffing,
\* inWhistle or inMozzi is 1 a call of loop() is reached that draws a frame
\* and leaves all four 0; and nothing restarts a sound on its way, the
\* count of its steps only going up by one at a time while it is active.
C12_SoundsComplete ==
    /\ (Active \/ inMozzi = 1) ~>
           (~Active /\ inMozzi = 0 /\ pixelWrites = 1)
    /\ [][(inMelody = 1 =>
               notesIssued' \in {notesIssued, notesIssued + 1})
           /\ (inChuffing = 1 =>
                  chuffsIssued' \in {chuffsIssued, chuffsIssued + 1})
           /\ (inWhistle = 1 =>
                  Len(whistleLog') \in {Len(whistleLog),
                                        Len(whistleLog) + 1})]_vars

\* The chuff sequence is over, its last pulse has died away, and the lights
\* flicker again.
C12_Witness ==
    /\ ~Active /\ inMozzi = 0 /\ pixelWrites = 1
    /\ chuffsIssued = NUM_CHUFFS /\ sinceLaunch = 1 /\ whichSound = 4

\* C13: a call of loop() that reaches trainLights() writes exactly one
\* zone, and the two other zones keep their red, green and blue.
C13_OneZonePerFrame ==
    [][FramePath =>
         /\ pixelWrites' = 1
         /\ \E z \in 0 .. LED_COUNT - 1 :
               \A y \in (0 .. LED_COUNT - 1) \ {z} : pixels'[y] = pixels[y]]_vars

\* A frame has been drawn with all three zones lit.
C13_Witness ==
    /\ pixelWrites = 1 /\ ticked
    /\ \A z \in 0 .. LED_COUNT - 1 : pixels[z] # << 0, 0, 0 >>

\* C14: the announcement runs to its end inside the call that launches it:
\* first words queued, wait, pause, second words queued, wait, tail pause,
\* reset; on return inMozzi, inMelody, inChuffing and inWhistle are 0, and
\* the next call of loop() is an ordinary lighting tick.
C14_AnnouncementBlocks ==
    /\ [](lastLaunch = "Announcement" =>
            /\ annTrace = ANNOUNCEMENT_TRACE
            /\ voiceQ = << >>
            /\ inMozzi = 0 /\ inMelody = 0 /\ inChuffing = 0
            /\ inWhistle = 0)
    /\ [][lastLaunch = "Announcement" =>
            /\ pixelWrites' = 1 /\ lastLaunch' = "none"
            /\ ~showDuringMozzi' /\ sinceLaunch' = 1
            /\ annTrace' = annTrace]_vars

\* The call that launched the announcement has returned.
C14_Witness ==
    /\ lastLaunch = "Announcement" /\ Len(annTrace) = 19
    /\ pixelWrites = 1 /\ ticked

\* C15: a call of loop() entered with inMozzi = 1 leaves the zone colours,
\* the counter, whichSound, whichMelody, curMelodyNote, curChuff,
\* chuffDelay, curWhistle and the three active flags as they were; of the
\* sketch's variables only inMozzi (1 to 0) and gain may change.
C15_AudioTickFrame ==
    [][inMozzi = 1 =>
         /\ pixels' = pixels /\ counter' = counter
         /\ whichSound' = whichSound /\ whichMelody' = whichMelody
         /\ curMelodyNote' = curMelodyNote /\ curChuff' = curChuff
         /\ chuffDelay' = chuffDelay /\ curWhistle' = curWhistle
         /\ inMelody' = inMelody /\ inChuffing' = inChuffing
         /\ inWhistle' = inWhistle /\ mozziMode' = mozziMode
         /\ inMozzi' \in {0, 1}
         /\ pixelWrites' = 0 /\ lastLaunch' = "none"]_vars

\* A chuff's timer has just expired in a call that only served the engine.
C15_Witness ==
    /\ mozziRunning /\ inMozzi = 0 /\ gain = 0
    /\ inChuffing = 1 /\ chuffsIssued = 3

\* C16: the counter changes only in calls of loop() entered with no
\* sub-machine active; a call that steps a melody, a chuff sequence or a
\* whistle leaves it as it was.
C16_CounterOnlyWhenIdle == [][Active => counter' = counter]_vars

\* C17: whichSound is always in 0 .. 4; every launch, setup()'s and
\* loop()'s, advances it by one modulo 5, and nothing else changes it.
C17_RotationIndex ==
    /\ [](/\ whichSound \in 0 .. 4
          /\ ~ticked => (lastLaunch # "none" /\ whichSound = 1))
    /\ [][IF lastLaunch' # "none"
          THEN whichSound' = (whichSound + 1) % 5
          ELSE whichSound' = whichSound]_vars

\* The whistle has been launched and the index is back at 0.
C17_Witness == lastLaunch = "Whistle" /\ whichSound = 0 /\ inWhistle = 1

\* C18: the counter stays in 0 .. 32000: it starts at 1, goes up by one in
\* every call that draws a frame, and the call that would take it past
\* 32000 sets it to 0; no other call changes it.
C18_CounterWraps ==
    /\ [](/\ counter \in 0 .. 32000
          /\ ~ticked => counter = 1)
    /\ [][IF FramePath
          THEN counter' = (IF counter = 32000 THEN 0 ELSE counter + 1)
          ELSE counter' = counter]_vars

\* The counter has wrapped: the frame drawn at 32000 has set it to 0.
C18_Witness == counter = 0 /\ pixelWrites = 1 /\ sinceLaunch = 200

\* C19: the index playNextNoteInMelody() reads the tables at is within the
\* table chosen by whichMelody (0 .. 29 or 0 .. 42), after any launches and
\* steps; curChuff is in 0 .. 14 and curWhistle in 0 .. 2 at every tick
\* boundary.
C19_IndicesInBounds ==
    /\ whichMelody \in {0, 1}
    /\ whichMelody = 0 =>
          /\ curMelodyNote \in 0 .. 29
          /\ curMelodyNote < Len(melody)
          /\ curMelodyNote < Len(melodyDurations)
    /\ whichMelody = 1 =>
          /\ curMelodyNote \in 0 .. 42
          /\ curMelodyNote < Len(melody2)
          /\ curMelodyNote < Len(melody2Durations)
    /\ curChuff \in 0 .. 14
    /\ curWhistle \in 0 .. 2

\* The next step reads the last element of the second melody's tables.
C19_Witness ==
    inMelody = 1 /\ whichMelody = 1 /\ curMelodyNote = 42 /\ inMozzi = 0

\* C20: from startMelody() until the melody completes whichMelody does not
\* change, although whichSound has moved on right after the launch;
\* whichMelody changes only in a call that launches a melody.
C20_TableFixedAtLaunch ==
    [][/\ inMelody = 1 => whichMelody' = whichMelody
       /\ whichMelody' # whichMelody =>
             lastLaunch' \in {"MelodyA", "MelodyB"}]_vars

\* The first melody is half played, from the first table, and whichSound
\* already names the second.
C20_Witness ==
    /\ inMelody = 1 /\ whichMelody = 0 /\ whichSound = 1
    /\ notesIssued = 15

\* C21: the length handed to playNote() for a duration code c of the tables
\* is 1024 div c when c > 0 and (1024 * 3) div (|c| * 2) when c < 0; a code
\* of 0 is taken for 1; and the length is strictly positive for every code
\* of both tables.
C21_NoteLengths ==
    LET codes == IF whichMelody = 0 THEN melodyDurations ELSE melody2Durations
        c == codes[notesIssued]
    IN  /\ mozziMode = MOZZI_NOTE =>
              /\ c > 0 => kDelay = 1024 \div c
              /\ c < 0 => kDelay = (1024 * 3) \div ((-c) * 2)
              /\ kDelay > 0
        /\ noteLength(0) = 1024 /\ noteLength(0) = noteLength(1)
        /\ \A i \in 1 .. Len(melodyDurations) :
              noteLength(melodyDurations[i]) > 0
        /\ \A i \in 1 .. Len(melody2Durations) :
              noteLength(melody2Durations[i]) > 0

\* The twelfth note of the second melody, a dotted eighth, is sounding.
C21_Witness ==
    /\ inMozzi = 1 /\ mozziMode = MOZZI_NOTE /\ whichMelody = 1
    /\ notesIssued = 12 /\ melody2Durations[12] = -8 /\ kDelay = 192

\* C22: a chuff launch issues exactly NUM_CHUFFS = 15 pulses, the first
\* inside startChuffing() and one in every call of loop() that steps the
\* sequence; inChuffing is 1 until the 15th pulse is issued and 0 from then
\* on, and curChuff is back at 0 then.
C22_FifteenPulses ==
    /\ [](/\ NUM_CHUFFS = 15
          /\ chuffsIssued \in 0 .. 15
          /\ inChuffing = 1 <=> chuffsIssued \in 1 .. 14
          /\ inChuffing = 1 => curChuff = chuffsIssued
          /\ inChuffing = 0 => curChuff = 0)
    /\ [][/\ lastLaunch' = "Chuff" => chuffsIssued' = 1
          /\ (inMozzi # 1 /\ inMelody # 1 /\ inChuffing = 1) =>
                chuffsIssued' = chuffsIssued + 1
          /\ chuffsIssued' # chuffsIssued =>
                (lastLaunch' = "Chuff" \/ (inMozzi # 1 /\ inChuffing = 1))]_vars

\* The 15th pulse of the second chuff sequence is sounding.
C22_Witness ==
    /\ chuffsIssued = 15 /\ inChuffing = 0 /\ curChuff = 0
    /\ inMozzi = 1 /\ mozziMode = MOZZI_CHUFF /\ counter > 2000

\* C23: the timer of the k-th pulse of a chuff sequence, k = 0 .. 14, is
\* started with 1000 + max(50, 1100 - 150 * k), the delay being read before
\* that pulse's decrement; so the first pulse of every launch is scheduled
\* for 2100, whatever delay the sequence before left.
C23_PulseTimer ==
    /\ [](mozziMode = MOZZI_CHUFF =>
            /\ chuffsIssued \in 1 .. 15
            /\ kDelay = 1000 + Max(50, 1100 - 150 * (chuffsIssued - 1)))
    /\ [][lastLaunch' = "Chuff" => kDelay' = 2100]_vars

\* The second chuff sequence has been launched, with the delay of the first
\* left at its floor.
C23_Witness ==
    /\ lastLaunch = "Chuff" /\ kDelay = 2100 /\ chuffsIssued = 1
    /\ chuffDelay = 950 /\ counter > 2000

\* C24: while the sound of the whistle's Initial stage plays, updateAudio()
\* returns the mix of one square tone and noise, and while the sound of the
\* Tritone stage plays, the mix of four tones; it chooses by curWhistle,
\* which nextWhistle() has moved one past the stage that whistle() started.
C24_RendererMatchesStage ==
    (inMozzi = 1 /\ mozziMode = MOZZI_WHISTLE) =>
        LET stage == whistleLog[Len(whistleLog)]
        IN  /\ Len(whistleLog) >= 1
            /\ curWhistle = (stage + 1) % 3
            /\ stage = WHISTLE_INITIAL => updateAudio(Cur) = "oneTone"
            /\ stage = WHISTLE_TRITONE => updateAudio(Cur) = "fourTone"

\* The Tritone stage is sounding, curWhistle already naming the fade.
C24_Witness ==
    /\ inMozzi = 1 /\ mozziMode = MOZZI_WHISTLE
    /\ whistleLog = << WHISTLE_INITIAL, WHISTLE_TRITONE >>
    /\ curWhistle = WHISTLE_FADE /\ updateAudio(Cur) = "fourTone"

\* A colour of the stove's ordinary palette (lines 747-749).
StovePalette(c) == c[1] \in 150 .. 199 /\ c[2] \in 0 .. 19 /\ c[3] = 0

\* A fully saturated primary or secondary colour.
Saturated(c) ==
    /\ \A i \in 1 .. 3 : c[i] \in {0, 255}
    /\ Cardinality({i \in 1 .. 3 : c[i] = 255}) \in {1, 2}

\* C25: when the stove's override fires, that is when a frame gives the
\* stove zone a colour that is not of its ordinary palette, the colour is
\* fully saturated: each of r, g, b is 0 or 255 and one or two of them are
\* 255, never black and never white; and every component of every zone is
\* within 0 .. 255.
C25_FlashSaturated ==
    /\ [](\A z \in 0 .. LED_COUNT - 1 :
             \A i \in 1 .. 3 : pixels[z][i] \in 0 .. 255)
    /\ [][(FramePath /\ pixels'[1] # pixels[1]
              /\ ~StovePalette(pixels'[1])) => Saturated(pixels'[1])]_vars

\* C26: the sounds launched, melody variants told apart, are the same in
\* every run, whatever the frames draw for zone and colour and however
\* many calls a timer takes to expire: the launches so far are a function
\* of the count of flickers alone, the first 1 + (counter - 1) div 300
\* entries of one fixed sequence.
C26_LaunchesDeterministic ==
    LET n == 1 + (counter - 1) \div FLICKERS_PER_SOUND
    IN  /\ n \in 1 .. 5
        /\ Sounds(launchLog) =
              SubSeq(<< "MelodyA", "MelodyB", "Announcement", "Chuff",
                        "Whistle" >>, 1, n)

\* The whistle has been launched in a run whose frames drew a magenta flash
\* for the stove and whose last timer ran with the envelope high.
C26_Witness ==
    /\ Len(launchLog) = 5 /\ launchLog[5].sound = "Whistle"
    /\ pixels[1] = << 255, 0, 255 >> /\ gain = 255

----------------------------------------------------------------------------
\* The unbounded run under fairness

\* What audioHook() meets when it runs updateControl() and the timer is ready.
ExpireInput == [draw |-> NoDraw, control |-> TRUE, ready |-> TRUE, env |-> 0]

\* A call of loop() in the unbounded run: the steps of NextLong (loop()
\* reads in.control, in.ready and in.env on its audio branch only).
LoopCall ==
    \E in \in AudioInputs : \E r \in {loop(Cur, in)} : Becomes(r)

\* The steps of AudioExpire: a call of loop() that finds the timer ready.
TimerExpires ==
    /\ inMozzi = 1
    /\ \E r \in {loop(Cur, ExpireInput)} : Becomes(r)

\* The Arduino core calls loop() again and again, and a timer started with a
\* finite duration is ready after finitely many calls.
SpecFair ==
    /\ Init
    /\ [][NextLong]_vars
    /\ WF_vars(LoopCall)
    /\ WF_vars(TimerExpires)

\* C27: while loop() keeps being called and every timer started expires,
\* the rotation never stalls: each of the five slots (first melody, second
\* melody, announcement, chuff, whistle) is launched infinitely often,
\* lighting frames are produced infinitely often, and at least one frame
\* lies between a launch of loop() and the launch before it.
C27_RotationNeverStalls ==
    /\ \A snd \in {"MelodyA", "MelodyB", "Announcement", "Chuff", "Whistle"} :
          []<>(lastLaunch = snd)
    /\ []<>(pixelWrites = 1 /\ lastLaunch = "none")
    /\ []((ticked /\ lastLaunch # "none") => launchGap >= 1)

\* The counter has wrapped twice, and the launch at the second wrap is the
\* whistle's.
C27_Witness ==
    /\ lastLaunch = "Whistle" /\ counter = 1 /\ launchGap = 201
    /\ inWhistle = 1 /\ inMozzi = 1

====
